---- MODULE Spec2Model ----
(***************************************************************************)
(* AI value computation (logic/system/ai_value_computation.py):            *)
(* compute_ai_value resolves candidates by a dotted path, serializes them, *)
(* asks an external model for a choice or applies a deterministic          *)
(* fallback, and maps the chosen candidate into the request row.           *)
(*                                                                         *)
(* Strings the code parses (paths, strategies, column names) are sequences *)
(* of one-character strings.  Values are tagged tuples <<tag, payload>>;   *)
(* numbers are carried in tenths (95 is 9.5).                              *)
(***************************************************************************)
EXTENDS Integers, Sequences, FiniteSets, TLC

\* ---------------------------------------------------------------- bounds
MaxCands == 2
MaxCalls == 2

\* ------------------------------------------------------- string literals
str_chosen_ == <<"c","h","o","s","e","n","_">>
str_price == <<"_","p","r","i","c","e">>
str_cost == <<"_","c","o","s","t">>
str_amount == <<"_","a","m","o","u","n","t">>
str_id == <<"_","i","d">>
str_min == <<"m","i","n",":">>
str_max == <<"m","a","x",":">>
str_first == <<"f","i","r","s","t">>
str_supplier_id == <<"s","u","p","p","l","i","e","r","_","i","d">>
str_unit_cost == <<"u","n","i","t","_","c","o","s","t">>
str_unit_price == <<"u","n","i","t","_","p","r","i","c","e">>
str_product_id == <<"p","r","o","d","u","c","t","_","i","d">>
str_chosen_supplier_id == str_chosen_ \o str_supplier_id
str_chosen_unit_price == str_chosen_ \o str_unit_price
str_reason == <<"r","e","a","s","o","n">>
str_request == <<"r","e","q","u","e","s","t">>
str_product == <<"p","r","o","d","u","c","t">>
str_supplier == <<"s","u","p","p","l","i","e","r">>
str_ProductSupplierList == <<"P","r","o","d","u","c","t","S","u","p","p","l","i","e","r","L","i","s","t">>
str_name == <<"n","a","m","e">>
str_region == <<"r","e","g","i","o","n">>
str_code == <<"c","o","d","e">>
str_status == <<"s","t","a","t","u","s">>
str_path_list == str_product \o <<".">> \o str_ProductSupplierList
str_min_unit_cost == str_min \o str_unit_cost
str_max_unit_cost == str_max \o str_unit_cost
str_bogus_foo == <<"b","o","g","u","s",":","f","o","o">>
str_min_bare == <<"m","i","n">>
str_product_supplier == str_product \o <<".">> \o str_supplier
str_ideal_price == <<"i","d","e","a","l">> \o str_price
str_prechosen_cost == <<"p","r","e">> \o str_chosen_ \o <<"c","o","s","t">>
str_precost == <<"p","r","e","c","o","s","t">>
str_lead_time == <<"l","e","a","d","_","t","i","m","e">>
str_chosen_ideal_price == str_chosen_ \o str_ideal_price
str_chosen_prechosen_cost == str_chosen_ \o str_prechosen_cost
str_chosen_lead_time == str_chosen_ \o str_lead_time
str_prechosen_total == <<"p","r","e">> \o str_chosen_ \o <<"t","o","t","a","l">>
str_item_id == <<"i","t","e","m">> \o str_id
str_pk == <<"i","d">>
str_supplier_name == str_supplier \o <<"_">> \o str_name
str_count_suppliers == <<"c","o","u","n","t","_","s","u","p","p","l","i","e","r","s">>
str_Unknown == <<"U","n","k","n","o","w","n">>
str_empty == <<>>

\* ------------------------------------------------ string operations (str)
StartsWith(s, p) == Len(s) >= Len(p) /\ SubSeq(s, 1, Len(p)) = p

EndsWith(s, p) == Len(s) >= Len(p) /\ SubSeq(s, Len(s) - Len(p) + 1, Len(s)) = p

RECURSIVE Find(_, _, _)
Find(s, sub, i) ==
    IF i + Len(sub) - 1 > Len(s) THEN 0
    ELSE IF SubSeq(s, i, i + Len(sub) - 1) = sub THEN i
    ELSE Find(s, sub, i + 1)

Contains(s, sub) == Find(s, sub, 1) # 0

RECURSIVE Replace(_, _, _)
Replace(s, old, new) ==
    LET i == Find(s, old, 1)
    IN  IF i = 0 THEN s
        ELSE SubSeq(s, 1, i - 1) \o new
             \o Replace(SubSeq(s, i + Len(old), Len(s)), old, new)

\* s.split(sep): every occurrence of the one-character separator splits
RECURSIVE Split(_, _)
Split(s, sep) ==
    LET i == Find(s, sep, 1)
    IN  IF i = 0 THEN <<s>>
        ELSE <<SubSeq(s, 1, i - 1)>> \o Split(SubSeq(s, i + 1, Len(s)), sep)

\* s.split(sep, 1): at most one split
SplitOnce(s, sep) ==
    LET i == Find(s, sep, 1)
    IN  IF i = 0 THEN <<s>>
        ELSE <<SubSeq(s, 1, i - 1), SubSeq(s, i + 1, Len(s))>>

\* ----------------------------------------------------------------- values
NoneV == <<"none">>
IntV(n) == <<"int", n>>
FloatV(n) == <<"float", n>>
DecV(n) == <<"dec", n>>
StrV(s) == <<"str", s>>
ObjV(o) == <<"obj", o>>
ListV(l) == <<"list", l>>
PosInf == <<"inf", 1>>
NegInf == <<"inf", -1>>

Tag(v) == v[1]
IsNumber(v) == Tag(v) \in {"int", "float", "dec", "inf"}

\* the number a value stands for, in tenths; infinities lie beyond every number
InfMagnitude == 1000000
Tenths(v) ==
    CASE Tag(v) = "int" -> v[2] * 10
      [] Tag(v) = "inf" -> v[2] * InfMagnitude
      [] OTHER -> v[2]

\* bool(v)
Truthy(v) ==
    CASE Tag(v) = "none" -> FALSE
      [] Tag(v) \in {"int", "float", "dec"} -> v[2] # 0
      [] Tag(v) \in {"str", "list"} -> v[2] # <<>>
      [] Tag(v) = "text" -> v[2] # ""
      [] OTHER -> TRUE

\* -------------------------------------------------- mapped classes (ORM)
ColumnAttrs(cls) ==
    CASE cls = "SysSupplierReq" ->
            <<str_product_id, str_chosen_supplier_id, str_chosen_unit_price,
              str_request, str_reason>>
      [] cls = "ProductSupplier" -> <<str_supplier_id, str_unit_cost>>
      [] cls = "Product" -> <<str_unit_price>>
      [] cls = "Supplier" -> <<str_name, str_region>>
      [] cls = "SysQuoteReq" ->
            <<str_chosen_supplier_id, str_chosen_unit_price,
              str_chosen_ideal_price, str_chosen_prechosen_cost,
              str_chosen_lead_time, str_prechosen_total, str_request, str_reason>>

Relationships(cls) ==
    CASE cls = "SysSupplierReq" -> <<str_product>>
      [] cls = "ProductSupplier" -> <<str_supplier>>
      [] cls = "Product" -> <<str_ProductSupplierList>>
      [] cls = "Supplier" -> <<>>
      [] cls = "SysQuoteReq" -> <<>>

Range(s) == {s[i] : i \in DOMAIN s}

Obj(cls, attrs) == [cls |-> cls, attrs |-> attrs]

\* hasattr(current, part) / getattr(current, part)
HasAttr(v, part) == Tag(v) = "obj" /\ part \in DOMAIN v[2].attrs
GetAttr(v, part) == v[2].attrs[part]
GetAttrOr(v, part, default) == IF HasAttr(v, part) THEN GetAttr(v, part) ELSE default

\* ------------------------------------------------------ _get_candidates
Failed == <<"fail">>

RECURSIVE Navigate(_, _)
Navigate(current, parts) ==
    IF parts = <<>> THEN current
    ELSE IF ~HasAttr(current, Head(parts)) THEN Failed
    ELSE LET next == GetAttr(current, Head(parts))
         IN  IF next = NoneV THEN Failed ELSE Navigate(next, Tail(parts))

\* variant: a single entity is not wrapped
GetCandidates_NoWrap(rowObj, candidates_path) ==
    LET current == Navigate(ObjV(rowObj), Split(candidates_path, <<".">>))
    IN  IF current = Failed THEN <<>>
        ELSE IF Tag(current) # "list" THEN <<>>
        ELSE current[2]

\* the candidate objects at row.<candidates_path>, as a sequence
GetCandidates(rowObj, candidates_path) ==
    LET current == Navigate(ObjV(rowObj), Split(candidates_path, <<".">>))
    IN  IF current = Failed THEN <<>>
        ELSE IF Tag(current) # "list"
             THEN (IF Truthy(current) THEN <<current>> ELSE <<>>)
        ELSE current[2]

\* ------------------------------------------------ _serialize_candidates
InterestingAttrs == {str_name, str_region, str_code, str_status}

\* Decimal is converted to float for JSON serialization
DecimalToFloat(value) == IF Tag(value) = "dec" THEN FloatV(value[2]) ELSE value

RelatedKey(pair) == pair[1] \o <<"_">> \o pair[2]

SerializeOne(candidate, scalar_columns, relationships) ==
    LET scalars == [k \in Range(scalar_columns) |->
                       DecimalToFloat(GetAttrOr(candidate, k, NoneV))]
        pairs == {p \in Range(relationships) \X InterestingAttrs :
                     LET related_obj == GetAttrOr(candidate, p[1], NoneV)
                     IN  /\ Truthy(related_obj)
                         /\ Tag(related_obj) # "list"
                         /\ HasAttr(related_obj, p[2])}
        related == [k \in {RelatedKey(p) : p \in pairs} |->
                       LET p == CHOOSE q \in pairs : RelatedKey(q) = k
                       IN  GetAttr(GetAttr(candidate, p[1]), p[2])]
    IN  related @@ scalars

\* variant: the records come out in reverse order
SerializeCandidates_Reversed(candidate_list) ==
    IF candidate_list = <<>> THEN <<>>
    ELSE LET cls == candidate_list[1][2].cls
             n == Len(candidate_list)
         IN  [i \in 1..n |->
                 SerializeOne(candidate_list[n + 1 - i], ColumnAttrs(cls),
                              Relationships(cls))]

SerializeCandidates(candidate_list) ==
    IF candidate_list = <<>> THEN <<>>
    ELSE LET cls == candidate_list[1][2].cls
         IN  [i \in 1..Len(candidate_list) |->
                 SerializeOne(candidate_list[i], ColumnAttrs(cls), Relationships(cls))]

\* --------------------------------------------------- _get_result_columns
GetResultColumns(cls) ==
    [col_name \in {c \in Range(ColumnAttrs(cls)) : StartsWith(c, str_chosen_)} |->
        Replace(col_name, str_chosen_, <<>>)]

\* ---------------------------------------------------- _load_test_context
NormalOperations == <<"text", "normal operations">>

\* yaml is <<"nofile">> or <<"file", v>>, v the value under world_conditions
LoadTestContext(yaml) ==
    IF yaml[1] = "file" /\ Truthy(yaml[2]) THEN yaml[2] ELSE NormalOperations

\* json.dumps accepts text, numbers, null, lists and dicts; not a date
JsonSerializable(v) == Tag(v) # "date"

\* ---------------------------------------------------- _map_result_fields
Resolve(chosen, target_field) ==
    IF target_field \in DOMAIN chosen THEN chosen[target_field]
    ELSE IF Replace(target_field, str_price, str_cost) \in DOMAIN chosen
         THEN chosen[Replace(target_field, str_price, str_cost)]
    ELSE IF Replace(target_field, str_cost, str_price) \in DOMAIN chosen
         THEN chosen[Replace(target_field, str_cost, str_price)]
    ELSE NoneV

\* int(value): truncation toward zero
PyInt(value) ==
    IF Tag(value) = "int" THEN value
    ELSE IF value[2] >= 0 THEN IntV(value[2] \div 10)
    ELSE IntV(0 - ((0 - value[2]) \div 10))

\* Decimal(str(value))
PyDecimalOfStr(value) == DecV(Tenths(value))

Coerce(result_col, value) ==
    IF Tag(value) \in {"int", "float"}
    THEN IF Contains(result_col, str_id) \/ EndsWith(result_col, str_id)
         THEN PyInt(value)
         ELSE IF \/ Contains(result_col, str_price)
                 \/ Contains(result_col, str_cost)
                 \/ Contains(result_col, str_amount)
              THEN PyDecimalOfStr(value)
         ELSE value
    ELSE value

\* the result columns that receive a value from the chosen candidate
MappedCols(chosen, result_columns) ==
    {c \in DOMAIN result_columns : Resolve(chosen, result_columns[c]) # NoneV}

\* variant: the value is also stored under the source field's name
MapResultFields_SourceName(rowAttrs, chosen, result_columns) ==
    [a \in DOMAIN rowAttrs
           \cup {result_columns[c] : c \in MappedCols(chosen, result_columns)} |->
        IF a \in MappedCols(chosen, result_columns)
        THEN Coerce(a, Resolve(chosen, result_columns[a]))
        ELSE IF a \in DOMAIN rowAttrs THEN rowAttrs[a]
        ELSE Resolve(chosen, a)]

MapResultFields(rowAttrs, chosen, result_columns) ==
    [a \in DOMAIN rowAttrs |->
        IF a \in MappedCols(chosen, result_columns)
        THEN Coerce(a, Resolve(chosen, result_columns[a]))
        ELSE rowAttrs[a]]

\* -------------------------------------------- comparisons, min() and max()
\* code-point order of the characters that occur in compared strings
Alphabet == <<"A", "E", "S", "U", "c", "e", "m">>
Ord(ch) == CHOOSE i \in 1..Len(Alphabet) : Alphabet[i] = ch

RECURSIVE LexLess(_, _)
LexLess(a, b) ==
    IF b = <<>> THEN FALSE
    ELSE IF a = <<>> THEN TRUE
    ELSE IF Head(a) # Head(b) THEN Ord(Head(a)) < Ord(Head(b))
    ELSE LexLess(Tail(a), Tail(b))

\* a < b is defined between two numbers or two strings, else TypeError
CanCompare(a, b) ==
    \/ IsNumber(a) /\ IsNumber(b)
    \/ Tag(a) = "str" /\ Tag(b) = "str"

PyLess(a, b) ==
    IF Tag(a) = "str" THEN LexLess(a[2], b[2]) ELSE Tenths(a) < Tenths(b)

\* min(iterable, key=...): index of the result, 0 when a comparison raises
RECURSIVE MinScan(_, _, _)
MinScan(keys, i, best) ==
    IF i > Len(keys) THEN best
    ELSE IF ~CanCompare(keys[i], keys[best]) THEN 0
    ELSE MinScan(keys, i + 1, IF PyLess(keys[i], keys[best]) THEN i ELSE best)

\* variant: a later equal key replaces the best so far
RECURSIVE MinScanLast(_, _, _)
MinScanLast(keys, i, best) ==
    IF i > Len(keys) THEN best
    ELSE IF ~CanCompare(keys[i], keys[best]) THEN 0
    ELSE MinScanLast(keys, i + 1, IF ~PyLess(keys[best], keys[i]) THEN i ELSE best)

PyMin_LastTie(keys) == MinScanLast(keys, 2, 1)

PyMin(keys) == MinScan(keys, 2, 1)

\* max(iterable, key=...)
RECURSIVE MaxScan(_, _, _)
MaxScan(keys, i, best) ==
    IF i > Len(keys) THEN best
    ELSE IF ~CanCompare(keys[i], keys[best]) THEN 0
    ELSE MaxScan(keys, i + 1, IF PyLess(keys[best], keys[i]) THEN i ELSE best)

PyMax(keys) == MaxScan(keys, 2, 1)

\* c.get(field, default) and c.get(field)
DictGet(c, field, default) == IF field \in DOMAIN c THEN c[field] ELSE default
DictGet1(c, field) == DictGet(c, field, NoneV)

\* ------------------------------------------------------- _apply_fallback
Raised == [raised |-> TRUE, idx |-> 0, reason |-> <<>>]

\* fallback_strategy.split(':', 1)[1]; <<"IndexError">> when there is no [1]
StrategyField(fallback_strategy) ==
    LET parts == SplitOnce(fallback_strategy, <<":">>)
    IN  IF Len(parts) < 2 THEN <<"IndexError">> ELSE <<"ok", parts[2]>>

\* variant: the prefix tests omit the colon
FallbackChoice_BarePrefix(candidates, fallback_strategy) ==
    IF fallback_strategy = str_first
    THEN [raised |-> FALSE, idx |-> 1, reason |-> <<"fallback_first">>]
    ELSE IF StartsWith(fallback_strategy, <<"m", "i", "n">>)
    THEN LET f == StrategyField(fallback_strategy)
             i == PyMin([k \in 1..Len(candidates) |->
                            DictGet(candidates[k], f[2], PosInf)])
         IN  IF f[1] # "ok" \/ i = 0 THEN Raised
             ELSE [raised |-> FALSE, idx |-> i,
                   reason |-> <<"fallback_min", f[2], DictGet1(candidates[i], f[2])>>]
    ELSE IF StartsWith(fallback_strategy, <<"m", "a", "x">>)
    THEN LET f == StrategyField(fallback_strategy)
             i == PyMax([k \in 1..Len(candidates) |->
                            DictGet(candidates[k], f[2], NegInf)])
         IN  IF f[1] # "ok" \/ i = 0 THEN Raised
             ELSE [raised |-> FALSE, idx |-> i,
                   reason |-> <<"fallback_max", f[2], DictGet1(candidates[i], f[2])>>]
    ELSE [raised |-> FALSE, idx |-> 1,
          reason |-> <<"fallback_unknown", fallback_strategy>>]

\* strategy parsing and selection: the index of the chosen candidate and
\* the reason text, or raised
FallbackChoice(candidates, fallback_strategy) ==
    IF fallback_strategy = str_first
    THEN [raised |-> FALSE, idx |-> 1, reason |-> <<"fallback_first">>]
    ELSE IF StartsWith(fallback_strategy, str_min)
    THEN LET f == StrategyField(fallback_strategy)
             i == PyMin([k \in 1..Len(candidates) |->
                            DictGet(candidates[k], f[2], PosInf)])
         IN  IF f[1] # "ok" \/ i = 0 THEN Raised
             ELSE [raised |-> FALSE, idx |-> i,
                   reason |-> <<"fallback_min", f[2], DictGet1(candidates[i], f[2])>>]
    ELSE IF StartsWith(fallback_strategy, str_max)
    THEN LET f == StrategyField(fallback_strategy)
             i == PyMax([k \in 1..Len(candidates) |->
                            DictGet(candidates[k], f[2], NegInf)])
         IN  IF f[1] # "ok" \/ i = 0 THEN Raised
             ELSE [raised |-> FALSE, idx |-> i,
                   reason |-> <<"fallback_max", f[2], DictGet1(candidates[i], f[2])>>]
    ELSE [raised |-> FALSE, idx |-> 1,
          reason |-> <<"fallback_unknown", fallback_strategy>>]

NoChosen == <<>>

FallbackRequest(candidates, fallback_strategy) ==
    <<"request_fallback", candidates, fallback_strategy>>

\* variant: the request column is not written
ApplyFallback_NoRequest(rowAttrs, candidates, result_columns, fallback_strategy) ==
    IF candidates = <<>>
    THEN [raised |-> FALSE,
          row |-> [rowAttrs EXCEPT ![str_reason] = <<"fallback_failed">>],
          written |-> {str_reason}, chosen |-> NoChosen]
    ELSE LET choice == FallbackChoice(candidates, fallback_strategy)
         IN  IF choice.raised
             THEN [raised |-> TRUE, row |-> rowAttrs, written |-> {},
                   chosen |-> NoChosen]
             ELSE LET chosen == candidates[choice.idx]
                      mapped == MapResultFields(rowAttrs, chosen, result_columns)
                  IN  [raised |-> FALSE,
                       row |-> [mapped EXCEPT ![str_reason] = choice.reason],
                       written |-> MappedCols(chosen, result_columns)
                                     \cup {str_reason},
                       chosen |-> chosen]

\* the row after _apply_fallback, the columns it wrote, the chosen record,
\* and whether it raised
ApplyFallback(rowAttrs, candidates, result_columns, fallback_strategy) ==
    IF candidates = <<>>
    THEN [raised |-> FALSE,
          row |-> [rowAttrs EXCEPT ![str_reason] = <<"fallback_failed">>],
          written |-> {str_reason}, chosen |-> NoChosen]
    ELSE LET choice == FallbackChoice(candidates, fallback_strategy)
         IN  IF choice.raised
             THEN [raised |-> TRUE, row |-> rowAttrs, written |-> {},
                   chosen |-> NoChosen]
             ELSE LET chosen == candidates[choice.idx]
                      mapped == MapResultFields(rowAttrs, chosen, result_columns)
                  IN  [raised |-> FALSE,
                       row |-> [mapped EXCEPT
                                  ![str_reason] = choice.reason,
                                  ![str_request] =
                                      FallbackRequest(candidates, fallback_strategy)],
                       written |-> MappedCols(chosen, result_columns)
                                     \cup {str_reason, str_request},
                       chosen |-> chosen]

\* ---------------------------------------------------------- _call_openai
OptimizeFor == "fastest reliable delivery, reasonable cost"
Model == "gpt-4o-2024-08-06"
NoReasonProvided == <<"text", "No reason provided">>

AiRequest(world_conditions, candidates) ==
    <<"request_ai", world_conditions, candidates, OptimizeFor, Model>>

ExternalFailed(rowAttrs, written) ==
    [failed |-> TRUE, row |-> rowAttrs, written |-> written, chosen |-> NoChosen]

\* response_data.get(key, default) on a parsed JSON object
JsonGet(data, key, default) == IF key \in DOMAIN data THEN data[key] ELSE default

\* the index after validation: out of range becomes 0
\* variant: only the upper limit is tested
OutOfRange_NoNegative(chosen_index, n) == Tenths(chosen_index) >= n * 10

OutOfRange(chosen_index, n) ==
    Tenths(chosen_index) < 0 \/ Tenths(chosen_index) >= n * 10

ValidIndex(chosen_index, n) ==
    IF OutOfRange(chosen_index, n) THEN IntV(0) ELSE chosen_index

\* the reason after validation
ValidReason(chosen_index, ai_reason, n) ==
    IF OutOfRange(chosen_index, n)
    THEN <<"ai_invalid_defaulted", ValidIndex(chosen_index, n)[2], ai_reason>>
    ELSE ai_reason

\* ai_reason[:100] needs a string
Sliceable(ai_reason) == Tag(ai_reason) \in {"text", "ai_invalid_defaulted"}

\* candidates[chosen_index]: a negative index counts from the end;
\* <<"IndexError">> outside the list
PyIndex(list, i) ==
    IF i >= 0 /\ i < Len(list) THEN <<"ok", list[i + 1]>>
    ELSE IF i < 0 /\ Len(list) + i >= 0 THEN <<"ok", list[Len(list) + i + 1]>>
    ELSE <<"IndexError">>

\* the row after _call_openai on a response, the columns written, and
\* whether an exception left the function
CallOpenAI(rowAttrs, candidates, result_columns, world_conditions, response) ==
    IF response[1] # "json" \/ response[2][1] # "object"
    THEN ExternalFailed(rowAttrs, {})
    ELSE LET data == response[2][2]
             raw_index == JsonGet(data, "chosen_index", IntV(0))
             raw_reason == JsonGet(data, "reason", NoReasonProvided)
         IN  IF \/ Tag(raw_index) \notin {"int", "float"}
                \/ Tag(ValidIndex(raw_index, Len(candidates))) # "int"
             THEN ExternalFailed(rowAttrs, {})
             ELSE LET chosen_index == ValidIndex(raw_index, Len(candidates))
                      ai_reason == ValidReason(raw_index, raw_reason, Len(candidates))
                      item == PyIndex(candidates, chosen_index[2])
                      chosen == item[2]
                      mapped == MapResultFields(rowAttrs, chosen, result_columns)
                      withReason == [mapped EXCEPT ![str_reason] = ai_reason]
                      cols == MappedCols(chosen, result_columns)
                  IN  IF item[1] # "ok" \/ ~Sliceable(ai_reason)
                      THEN ExternalFailed(rowAttrs, {})
                      ELSE IF ~JsonSerializable(world_conditions)
                      THEN ExternalFailed(withReason, cols \cup {str_reason})
                      ELSE [failed |-> FALSE,
                            row |-> [withReason EXCEPT ![str_request] =
                                        AiRequest(world_conditions, candidates)],
                            written |-> cols \cup {str_reason, str_request},
                            chosen |-> chosen]

\* ------------------------------------------------------------ the inputs
SupplierObj ==
    ObjV(Obj("Supplier", (str_name :> StrV(<<"A", "c", "m", "e">>))
                         @@ (str_region :> StrV(<<"E", "U">>))))

\* unit_cost and supplier of a ProductSupplier
CandidateKinds ==
    {<<DecV(95), SupplierObj>>, <<DecV(120), SupplierObj>>,
     <<NoneV, SupplierObj>>, <<DecV(95), NoneV>>}

ProductSupplierObj(i, kind) ==
    ObjV(Obj("ProductSupplier", (str_supplier_id :> IntV(i))
                                @@ (str_unit_cost :> kind[1])
                                @@ (str_supplier :> kind[2])))

CandidateLists ==
    UNION {{[i \in 1..n |-> ProductSupplierObj(i, kinds[i])] :
                kinds \in [1..n -> CandidateKinds]} : n \in 0..MaxCands}

ProductObj(list) ==
    ObjV(Obj("Product", (str_unit_price :> DecV(100))
                        @@ (str_ProductSupplierList :> ListV(list))))

Products == {NoneV} \cup {ProductObj(l) : l \in CandidateLists}

Strategies ==
    {str_first, str_min_unit_cost, str_max_unit_cost, str_bogus_foo,
     str_min_bare, str_empty}

Paths == {str_path_list, str_product, str_supplier, str_product_supplier}

Yamls ==
    {<<"nofile">>, <<"file", <<"text", "port strike">>>>,
     <<"file", <<"date", "2025-01-01">>>>}

ResponseIndexes ==
    {IntV(i) : i \in -1..MaxCands} \cup {NoneV, <<"text", "1">>, FloatV(0)}

JsonObjects ==
    {("chosen_index" :> ix) @@ ("reason" :> rs) :
        ix \in ResponseIndexes, rs \in {<<"text", "cheapest">>}}
    \cup {("chosen_index" :> IntV(i)) @@ ("reason" :> IntV(5)) : i \in {-1, 0}}
    \cup {("chosen_index" :> IntV(i)) : i \in {-1, 0}}
    \cup {("reason" :> <<"text", "cheapest">>)}

Responses ==
    {<<"throws">>, <<"text", "not json">>, <<"json", <<"list">>>>}
    \cup {<<"json", <<"object", d>>>> : d \in JsonObjects}

NoResponse == <<"none">>

\* os.getenv("APILOGICSERVER_CHATGPT_APIKEY"): unset, empty, or a key
ApiKeys == {NoneV, <<"text", "">>, <<"text", "sk-test">>}

\* ------------------------------------------------------------- the state
VARIABLES row, fallback, pc, calls, api_key, yaml, candidates_path,
          candidates, world_conditions, response, chosen, written,
          rowAtEntry, trace, item, unit_price, inserted, handler

vars == <<row, fallback, pc, calls, api_key, yaml, candidates_path,
          candidates, world_conditions, response, chosen, written,
          rowAtEntry, trace, item, unit_price, inserted, handler>>

\* the Item whose unit_price is derived, the derived value, the number of
\* SysSupplierReq rows inserted, and the insert handler that is declared
itemVars == <<item, unit_price, inserted, handler>>

\* no Item takes part in a direct call of compute_ai_value
NoItem == <<>>
NoHandler == "none"

RowClass == "SysSupplierReq"

NewRow(product) ==
    (str_product_id :> IntV(1))
    @@ (str_chosen_supplier_id :> NoneV)
    @@ (str_chosen_unit_price :> NoneV)
    @@ (str_request :> NoneV)
    @@ (str_reason :> NoneV)
    @@ (str_product :> product)

Init ==
    /\ row \in {NewRow(p) : p \in Products}
    /\ fallback \in Strategies
    /\ pc = "idle"
    /\ calls = 0
    /\ api_key = NoneV
    /\ yaml = <<"nofile">>
    /\ candidates_path = <<>>
    /\ candidates = <<>>
    /\ world_conditions = NoneV
    /\ response = NoResponse
    /\ chosen = NoChosen
    /\ written = {}
    /\ rowAtEntry = row
    /\ trace = <<>>
    /\ item = NoItem
    /\ unit_price = NoneV
    /\ inserted = 0
    /\ handler = NoHandler

\* variant: the reason does not name the path
NoCandidatesReason_NoPath(path) == <<"error_no_candidates", <<>>>>

NoCandidatesReason(path) == <<"error_no_candidates", path>>

\* compute_ai_value up to the decision branch: candidates, serialization,
\* result columns, credential check, world conditions
Call(path, key, y, limit) ==
    /\ pc = "idle"
    /\ calls < limit
    /\ candidates_path' = path
    /\ api_key' = key
    /\ yaml' = y
    /\ rowAtEntry' = row
    /\ response' = NoResponse
    /\ chosen' = NoChosen
    /\ LET candidate_list == GetCandidates(Obj(RowClass, row), path)
       IN  IF candidate_list = <<>>
           THEN /\ row' = [row EXCEPT ![str_reason] = NoCandidatesReason(path)]
                /\ written' = {str_reason}
                /\ candidates' = <<>>
                /\ world_conditions' = NoneV
                /\ trace' = <<>>
                /\ pc' = "returned"
           ELSE /\ row' = row
                /\ written' = {}
                /\ candidates' = SerializeCandidates(candidate_list)
                /\ IF ~Truthy(key)
                   THEN /\ world_conditions' = NoneV
                        /\ trace' = <<>>
                        /\ pc' = "fallback"
                   ELSE /\ world_conditions' = LoadTestContext(y)
                        /\ trace' = <<"load_test_context">>
                        /\ pc' = "external"
    /\ UNCHANGED <<fallback, calls>>
    /\ UNCHANGED itemVars

\* variant: a failed attempt is made again
External_Retry(resp) ==
    /\ pc = "external"
    /\ LET r == CallOpenAI(row, candidates, GetResultColumns(RowClass),
                           world_conditions, resp)
       IN  /\ row' = r.row
           /\ written' = written \cup r.written
           /\ chosen' = r.chosen
           /\ pc' = IF r.failed /\ "call_openai" \notin Range(trace)
                    THEN "external"
                    ELSE IF r.failed THEN "fallback" ELSE "returned"
    /\ response' = resp
    /\ trace' = Append(trace, "call_openai")
    /\ UNCHANGED <<fallback, calls, api_key, yaml, candidates_path, candidates,
                   world_conditions, rowAtEntry>>
    /\ UNCHANGED itemVars

\* the try block: _call_openai on one response of the external service
External(resp) ==
    /\ pc = "external"
    /\ LET r == CallOpenAI(row, candidates, GetResultColumns(RowClass),
                           world_conditions, resp)
       IN  /\ row' = r.row
           /\ written' = written \cup r.written
           /\ chosen' = r.chosen
           /\ pc' = IF r.failed THEN "fallback" ELSE "returned"
    /\ response' = resp
    /\ trace' = Append(trace, "call_openai")
    /\ UNCHANGED <<fallback, calls, api_key, yaml, candidates_path, candidates,
                   world_conditions, rowAtEntry>>
    /\ UNCHANGED itemVars

\* _apply_fallback, from the no-credential branch or from the except clause
Fallback ==
    /\ pc = "fallback"
    /\ LET r == ApplyFallback(row, candidates, GetResultColumns(RowClass), fallback)
       IN  /\ row' = r.row
           /\ written' = written \cup r.written
           /\ chosen' = r.chosen
           /\ pc' = IF r.raised THEN "raised" ELSE "returned"
    /\ trace' = Append(trace, "apply_fallback")
    /\ UNCHANGED <<fallback, calls, api_key, yaml, candidates_path, candidates,
                   world_conditions, response, rowAtEntry>>
    /\ UNCHANGED itemVars

\* control is back with the caller, normally or with the exception
Return ==
    /\ pc \in {"returned", "raised"}
    /\ pc' = "idle"
    /\ calls' = calls + 1
    /\ UNCHANGED <<row, fallback, api_key, yaml, candidates_path, candidates,
                   world_conditions, response, chosen, written, rowAtEntry, trace>>
    /\ UNCHANGED itemVars

\* one invocation on a new row
Next ==
    \/ \E path \in Paths, key \in ApiKeys, y \in Yamls : Call(path, key, y, 1)
    \/ \E resp \in Responses : External(resp)
    \/ Fallback
    \/ Return

Spec == Init /\ [][Next]_vars

\* repeated invocations on the same row
RepeatProducts ==
    {NoneV, ProductObj(<<>>),
     ProductObj(<<ProductSupplierObj(1, <<DecV(95), SupplierObj>>)>>)}

RepeatResponses ==
    {<<"throws">>,
     <<"json", <<"object", ("chosen_index" :> IntV(0))
                           @@ ("reason" :> <<"text", "cheapest">>)>>>>}

InitRepeat ==
    /\ row \in {NewRow(p) : p \in RepeatProducts}
    /\ fallback \in {str_first, str_min_unit_cost}
    /\ pc = "idle"
    /\ calls = 0
    /\ api_key = NoneV
    /\ yaml = <<"nofile">>
    /\ candidates_path = <<>>
    /\ candidates = <<>>
    /\ world_conditions = NoneV
    /\ response = NoResponse
    /\ chosen = NoChosen
    /\ written = {}
    /\ rowAtEntry = row
    /\ trace = <<>>
    /\ item = NoItem
    /\ unit_price = NoneV
    /\ inserted = 0
    /\ handler = NoHandler

NextRepeat ==
    \/ \E path \in Paths, key \in ApiKeys : Call(path, key, <<"nofile">>, MaxCalls)
    \/ \E resp \in RepeatResponses : External(resp)
    \/ Fallback
    \/ Return

SpecRepeat == InitRepeat /\ [][NextRepeat]_vars

\* _get_result_columns and _map_result_fields on a request class whose column
\* names carry several of the substrings the two functions look for
MapClass == "SysQuoteReq"

NewMapRow == [a \in Range(ColumnAttrs(MapClass)) |-> NoneV]

\* a row whose chosen_* columns already hold a value from an earlier mapping
PriorMapRow ==
    [a \in Range(ColumnAttrs(MapClass)) |->
        IF StartsWith(a, str_chosen_) THEN IntV(3) ELSE NoneV]

\* a key of the chosen record: absent, or present with one of the values
Optional(key, values) == {<<>>} \cup {key :> v : v \in values}

ChosenRecords ==
    {(str_supplier_id :> id) @@ cost @@ price @@ ideal @@ pre @@ bare @@ lead :
        id \in {IntV(7), FloatV(70), StrV(<<"S", "7">>), NoneV},
        cost \in Optional(str_unit_cost, {FloatV(95), IntV(9)}),
        price \in Optional(str_unit_price, {FloatV(110), NoneV}),
        ideal \in Optional(str_ideal_price, {FloatV(95)}),
        pre \in Optional(str_prechosen_cost, {FloatV(120)}),
        bare \in Optional(str_precost, {FloatV(50)}),
        lead \in Optional(str_lead_time, {FloatV(25)})}

InitMap ==
    /\ row \in {NewMapRow, PriorMapRow}
    /\ fallback = str_first
    /\ pc = "idle"
    /\ calls = 0
    /\ api_key = NoneV
    /\ yaml = <<"nofile">>
    /\ candidates_path = <<>>
    /\ candidates = <<>>
    /\ world_conditions = NoneV
    /\ response = NoResponse
    /\ chosen = NoChosen
    /\ written = {}
    /\ rowAtEntry = row
    /\ trace = <<>>
    /\ item = NoItem
    /\ unit_price = NoneV
    /\ inserted = 0
    /\ handler = NoHandler

\* result columns of the row's class, then the chosen record mapped onto the row
MapChosen(c) ==
    /\ pc = "idle"
    /\ calls < 1
    /\ rowAtEntry' = row
    /\ chosen' = c
    /\ row' = MapResultFields(row, c, GetResultColumns(MapClass))
    /\ written' = MappedCols(c, GetResultColumns(MapClass))
    /\ pc' = "returned"
    /\ UNCHANGED <<fallback, calls, api_key, yaml, candidates_path, candidates,
                   world_conditions, response, trace>>
    /\ UNCHANGED itemVars

NextMap ==
    \/ \E c \in ChosenRecords : MapChosen(c)
    \/ Return

SpecMap == InitMap /\ [][NextMap]_vars

\* ------------------------------------- SysSupplierReq insert handlers
\* one entry of supplier_options / suppliers; zero stands in for a cost that
\* is null or 0
SupplierOption(ps, zero) ==
    LET supplier == GetAttr(ps, str_supplier)
        unit_cost == GetAttr(ps, str_unit_cost)
    IN  (str_supplier_id :> GetAttr(ps, str_supplier_id))
        @@ (str_supplier_name :> IF Truthy(supplier) THEN GetAttr(supplier, str_name)
                                 ELSE StrV(str_Unknown))
        @@ (str_unit_cost :> IF Truthy(unit_cost) THEN DecimalToFloat(unit_cost)
                             ELSE zero)
        @@ (str_region :> IF Truthy(supplier) THEN GetAttr(supplier, str_region)
                          ELSE StrV(str_Unknown))

SupplierOptions(product, zero) ==
    LET list == GetAttr(product, str_ProductSupplierList)[2]
    IN  [i \in 1..Len(list) |-> SupplierOption(list[i], zero)]

\* min(supplier_options, key=lambda s: s['unit_cost'])
LowestCost(options) ==
    options[PyMin([i \in 1..Len(options) |-> options[i][str_unit_cost]])]

\* a == b on JSON values and column values
PyEq(a, b) ==
    IF IsNumber(a) /\ IsNumber(b) THEN Tenths(a) = Tenths(b)
    ELSE Tag(a) = Tag(b) /\ a = b

\* next((s for s in options if s['supplier_id'] == chosen_supplier_id), None)
Matching(options, chosen_supplier_id) ==
    {i \in DOMAIN options : PyEq(options[i][str_supplier_id], chosen_supplier_id)}
FirstMatch(options, chosen_supplier_id) ==
    options[CHOOSE i \in Matching(options, chosen_supplier_id) :
               \A j \in Matching(options, chosen_supplier_id) : i <= j]

\* json.loads gave a dict, so .get() works
IsJsonObject(resp) == resp[1] = "json" /\ resp[2][1] = "object"

NoReasoningProvided == <<"text", "No reasoning provided">>

HandlerResult(raised, rowAttrs, cols) ==
    [raised |-> raised, row |-> rowAttrs, written |-> cols]

\* check_credit.py / template: Decimal price, reason and request on every path
StoreChoice(rowAttrs, supplier, reason, request) ==
    HandlerResult(FALSE,
        [rowAttrs EXCEPT ![str_chosen_supplier_id] = supplier[str_supplier_id],
                         ![str_chosen_unit_price] =
                             PyDecimalOfStr(supplier[str_unit_cost]),
                         ![str_reason] = reason,
                         ![str_request] = request],
        {str_chosen_supplier_id, str_chosen_unit_price, str_reason, str_request})

supplier_id_from_ai(rowAttrs, is_inserted, key, y, resp) ==
    IF ~is_inserted THEN HandlerResult(FALSE, rowAttrs, {})
    ELSE IF rowAttrs[str_product] = NoneV THEN HandlerResult(TRUE, rowAttrs, {})
    ELSE
    LET product == rowAttrs[str_product]
        supplier_options == SupplierOptions(product, FloatV(0))
        lowest == LowestCost(supplier_options)
        world == LoadTestContext(y)
        data == resp[2][2]
        chosen_supplier_id == JsonGet(data, "chosen_supplier_id", NoneV)
        found == Matching(supplier_options, chosen_supplier_id) # {}
        chosen_supplier == IF found THEN FirstMatch(supplier_options, chosen_supplier_id)
                           ELSE supplier_options[1]
        ai_reason == IF found THEN JsonGet(data, "reason", NoReasonProvided)
                     ELSE <<"ai_invalid_defaulted", chosen_supplier[str_supplier_name]>>
    IN  IF supplier_options = <<>>
        THEN HandlerResult(FALSE,
                 [rowAttrs EXCEPT ![str_reason] = <<"error_no_suppliers">>,
                                  ![str_chosen_unit_price] =
                                      IF Truthy(GetAttr(product, str_unit_price))
                                      THEN GetAttr(product, str_unit_price)
                                      ELSE DecV(0)],
                 {str_reason, str_chosen_unit_price})
        ELSE IF ~Truthy(key)
        THEN StoreChoice(rowAttrs, lowest,
                         <<"fallback_no_api_key", lowest[str_supplier_name]>>,
                         <<"request_options", supplier_options>>)
        ELSE IF IsJsonObject(resp) /\ JsonSerializable(world)
        THEN StoreChoice(rowAttrs, chosen_supplier, ai_reason,
                         <<"request_ai", world, supplier_options, Model>>)
        ELSE StoreChoice(rowAttrs, lowest,
                         <<"fallback_ai_error", lowest[str_supplier_name]>>,
                         <<"request_error_options", supplier_options>>)

\* supplier_selection.py: the price is stored as it is in the option
StoreSelection(rowAttrs, id, supplier, reason) ==
    [rowAttrs EXCEPT ![str_chosen_supplier_id] = id,
                     ![str_chosen_unit_price] = supplier[str_unit_cost],
                     ![str_reason] = reason]

select_supplier_with_ai(rowAttrs, is_inserted, key, y, resp) ==
    IF ~is_inserted THEN HandlerResult(FALSE, rowAttrs, {})
    ELSE IF \/ ~Truthy(rowAttrs[str_product])
            \/ ~Truthy(GetAttr(rowAttrs[str_product], str_ProductSupplierList))
    THEN HandlerResult(FALSE, rowAttrs, {})
    ELSE
    LET product == rowAttrs[str_product]
        world == LoadTestContext(y)
        suppliers == SupplierOptions(product, IntV(0))
        fallback_supplier == LowestCost(suppliers)
        data == resp[2][2]
        chosen_supplier_id == JsonGet(data, "chosen_supplier_id", NoneV)
        reasoning == JsonGet(data, "reasoning", NoReasoningProvided)
        found == Matching(suppliers, chosen_supplier_id) # {}
        stored == {str_chosen_supplier_id, str_chosen_unit_price, str_reason}
        after_try ==
            IF ~IsJsonObject(resp)
            THEN StoreSelection(rowAttrs, fallback_supplier[str_supplier_id],
                     fallback_supplier,
                     <<"fallback_api_error", fallback_supplier[str_supplier_name]>>)
            ELSE IF found
            THEN StoreSelection(rowAttrs, chosen_supplier_id,
                     FirstMatch(suppliers, chosen_supplier_id), reasoning)
            ELSE StoreSelection(rowAttrs, fallback_supplier[str_supplier_id],
                     fallback_supplier,
                     <<"fallback_ai_invalid", fallback_supplier[str_supplier_name]>>)
    IN  IF ~Truthy(key)
        THEN HandlerResult(FALSE,
                 StoreSelection(rowAttrs, fallback_supplier[str_supplier_id],
                     fallback_supplier,
                     <<"fallback_no_api_key", fallback_supplier[str_supplier_name]>>),
                 stored)
        ELSE IF ~JsonSerializable(world)
        THEN HandlerResult(TRUE, after_try, stored)
        ELSE HandlerResult(FALSE,
                 [after_try EXCEPT ![str_request] =
                     <<"request_ai", world, suppliers>>],
                 stored \cup {str_request})

\* ---------------------------------------- Item.unit_price (Request Pattern)
Handlers == {"supplier_id_from_ai", "select_supplier_with_ai"}

RunHandler(h, rowAttrs, is_inserted, key, y, resp) ==
    IF h = "supplier_id_from_ai"
    THEN supplier_id_from_ai(rowAttrs, is_inserted, key, y, resp)
    ELSE select_supplier_with_ai(rowAttrs, is_inserted, key, y, resp)

\* Product.count_suppliers is derived as the count of its ProductSuppliers, or
\* is still null
ItemProduct(list, count) ==
    ObjV(Obj("Product", (str_unit_price :> DecV(100))
                        @@ (str_count_suppliers :> count)
                        @@ (str_ProductSupplierList :> ListV(list))))

ItemOf(product) ==
    (str_pk :> IntV(5))
    @@ (str_product_id :> IF product = NoneV THEN NoneV ELSE IntV(3))
    @@ (str_product :> product)

Items ==
    {ItemOf(NoneV)}
    \cup {ItemOf(ItemProduct(l, c)) : l \in CandidateLists, c \in {NoneV}}
    \cup {ItemOf(ItemProduct(l, IntV(Len(l)))) : l \in CandidateLists}

HandlerResponses ==
    {<<"throws">>, <<"text", "not json">>, <<"json", <<"list">>>>}
    \cup {<<"json", <<"object", ("chosen_supplier_id" :> id)
                                @@ ("reason" :> <<"text", "cheapest">>)
                                @@ ("reasoning" :> <<"text", "cheapest">>)>>>> :
              id \in {IntV(i) : i \in 1..MaxCands + 1} \cup {FloatV(10)}}
    \cup {<<"json", <<"object", <<>>>>>>}

NoRequest == <<>>

\* new_logic_row(SysSupplierReq) with product_id and item_id set; row.product
\* is the relationship behind product_id
NewRequest(it) ==
    (str_item_id :> it[str_pk])
    @@ [NewRow(it[str_product]) EXCEPT ![str_product_id] = it[str_product_id]]

InitItem ==
    /\ row = NoRequest
    /\ fallback = str_first
    /\ pc = "idle"
    /\ calls = 0
    /\ api_key = NoneV
    /\ yaml = <<"nofile">>
    /\ candidates_path = <<>>
    /\ candidates = <<>>
    /\ world_conditions = NoneV
    /\ response = NoResponse
    /\ chosen = NoChosen
    /\ written = {}
    /\ rowAtEntry = row
    /\ trace = <<>>
    /\ item \in Items
    /\ unit_price = NoneV
    /\ inserted = 0
    /\ handler \in Handlers

\* variant: the request is inserted whatever count_suppliers says
ItemUnitPriceFromSupplier_IgnoresCount(key, y) ==
    /\ pc = "idle"
    /\ calls < 1
    /\ api_key' = key
    /\ yaml' = y
    /\ IF item[str_product] = NoneV
       THEN /\ unit_price' = DecV(0)
            /\ pc' = "returned"
            /\ UNCHANGED <<row, inserted, trace>>
       ELSE /\ row' = NewRequest(item)
            /\ inserted' = inserted + 1
            /\ trace' = <<"insert">>
            /\ pc' = "inserting"
            /\ UNCHANGED unit_price
    /\ UNCHANGED <<fallback, calls, candidates_path, candidates, world_conditions,
                   response, chosen, written, rowAtEntry, item, handler>>

\* the formula up to the insert of the request row
ItemUnitPriceFromSupplier(key, y) ==
    /\ pc = "idle"
    /\ calls < 1
    /\ api_key' = key
    /\ yaml' = y
    /\ IF item[str_product] = NoneV
       THEN /\ unit_price' = DecV(0)
            /\ pc' = "returned"
            /\ UNCHANGED <<row, inserted, trace>>
       ELSE IF GetAttr(item[str_product], str_count_suppliers) \in {IntV(0), NoneV}
       THEN /\ unit_price' = GetAttr(item[str_product], str_unit_price)
            /\ pc' = "returned"
            /\ UNCHANGED <<row, inserted, trace>>
       ELSE /\ row' = NewRequest(item)
            /\ inserted' = inserted + 1
            /\ trace' = <<"insert">>
            /\ pc' = "inserting"
            /\ UNCHANGED unit_price
    /\ UNCHANGED <<fallback, calls, candidates_path, candidates, world_conditions,
                   response, chosen, written, rowAtEntry, item, handler>>

\* the handler asks the external service only with a key and suppliers
AsksService ==
    /\ Truthy(api_key)
    /\ Truthy(row[str_product])
    /\ Truthy(GetAttr(row[str_product], str_ProductSupplierList))

\* insert(): the early row event runs the declared handler on the new row
InsertHandler(resp) ==
    /\ pc = "inserting"
    /\ (resp = NoResponse) = ~AsksService
    /\ LET r == RunHandler(handler, row, TRUE, api_key, yaml, resp)
       IN  /\ row' = r.row
           /\ written' = r.written
           /\ pc' = IF r.raised THEN "raised" ELSE "inserted"
    /\ response' = resp
    /\ rowAtEntry' = row
    /\ trace' = Append(trace, "handler")
    /\ UNCHANGED <<fallback, calls, api_key, yaml, candidates_path, candidates,
                   world_conditions, chosen>>
    /\ UNCHANGED itemVars

\* return sys_supplier_req.chosen_unit_price
FormulaReturn ==
    /\ pc = "inserted"
    /\ unit_price' = row[str_chosen_unit_price]
    /\ pc' = "returned"
    /\ trace' = Append(trace, "return")
    /\ UNCHANGED <<row, fallback, calls, api_key, yaml, candidates_path, candidates,
                   world_conditions, response, chosen, written, rowAtEntry,
                   item, inserted, handler>>

\* a later update or delete of the stored request: the early row event runs
\* the declared handler again, with is_inserted() false
RowVerbs == {"update", "delete"}

RowEvent(verb) ==
    /\ pc = "idle"
    /\ inserted = 1
    /\ trace # <<>>
    /\ trace[Len(trace)] = "return"
    /\ LET r == RunHandler(handler, row, FALSE, api_key, yaml, NoResponse)
       IN  /\ row' = r.row
           /\ written' = r.written
           /\ pc' = IF r.raised THEN "raised" ELSE "idle"
    /\ rowAtEntry' = row
    /\ trace' = Append(trace, verb)
    /\ UNCHANGED <<fallback, calls, api_key, yaml, candidates_path, candidates,
                   world_conditions, response, chosen>>
    /\ UNCHANGED itemVars

NextItem ==
    \/ \E key \in ApiKeys, y \in Yamls : ItemUnitPriceFromSupplier(key, y)
    \/ \E resp \in HandlerResponses \cup {NoResponse} : InsertHandler(resp)
    \/ FormulaReturn
    \/ Return
    \/ \E verb \in RowVerbs : RowEvent(verb)

SpecItem == InitItem /\ [][NextItem]_vars

\* ------------------------------------------------------------ properties
RC == GetResultColumns(RowClass)
ChosenCols == DOMAIN RC
Ended == pc \in {"returned", "raised"}
Events == Range(trace)
LastEvent == IF trace = <<>> THEN "none" ELSE trace[Len(trace)]
\* the external attempt has been made (and has returned or thrown)
AfterExternal == "call_openai" \in Events /\ pc # "idle"
\* the value _map_result_fields stores in col from candidate record c
MappedValue(c, col) == Coerce(col, Resolve(c, RC[col]))
\* every result column that c can fill holds c's value
MappedFrom(c) ==
    \A col \in ChosenCols :
        Resolve(c, RC[col]) # NoneV => row[col] = MappedValue(c, col)
FallbackReasonTags ==
    {"fallback_first", "fallback_min", "fallback_max", "fallback_unknown"}

\* C1: compute_ai_value never raises to its caller, whatever the credential,
\* the external outcome, the candidates and the fallback strategy.
C1_NeverRaises == pc # "raised"

\* C2: when the credential is present and the external path fails, the row on
\* return holds in chosen_*, reason and request exactly what the fallback
\* alone would have produced from the row as it was at entry.
C2_FallbackFullSubstitute ==
    (pc = "returned" /\ AfterExternal /\ LastEvent = "apply_fallback")
    => \A a \in ChosenCols \cup {str_reason, str_request} :
          row[a] = ApplyFallback(rowAtEntry, candidates, RC, fallback).row[a]

\* C3: on return, all chosen_* columns written during the call hold the
\* values of one and the same candidate record.
C3_OneCandidate ==
    pc = "returned"
    => \/ written \cap ChosenCols = {}
       \/ \E i \in 1..Len(candidates) :
             \A col \in written \cap ChosenCols :
                row[col] = MappedValue(candidates[i], col)

\* C4: with a non-empty candidate sequence, a normal return has reason and
\* request both written by the call, and both by the same decision (an AI
\* reason with the AI request, a fallback reason with the fallback request).
C4_ReasonAndRequestTogether ==
    (pc = "returned" /\ candidates # <<>>)
    => /\ str_reason \in written
       /\ str_request \in written
       /\ row[str_reason] # NoneV
       /\ row[str_request] # NoneV
       /\ (Tag(row[str_reason]) \in FallbackReasonTags
             <=> Tag(row[str_request]) = "request_fallback")
       /\ (Tag(row[str_reason]) \notin FallbackReasonTags
             <=> Tag(row[str_request]) = "request_ai")

\* C4 witness: the external path wrote a reason, failed on the request, and
\* the fallback then wrote both.
C4_Witness ==
    /\ pc = "returned"
    /\ trace = <<"load_test_context", "call_openai", "apply_fallback">>
    /\ ~JsonSerializable(world_conditions)
    /\ Tag(row[str_request]) = "request_fallback"

\* C5: when the path resolves to no candidates, the call returns normally
\* having written only reason, which is the no-candidates error naming the
\* path; no chosen_* column and no request is written, and neither the
\* external call nor the fallback runs.  This holds for a repeated call on
\* the same row, which therefore leaves the same reason.
C5_NoCandidates ==
    (Ended /\ GetCandidates(Obj(RowClass, rowAtEntry), candidates_path) = <<>>)
    => /\ pc = "returned"
       /\ row[str_reason] = <<"error_no_candidates", candidates_path>>
       /\ written = {str_reason}
       /\ \A a \in DOMAIN row \ {str_reason} : row[a] = rowAtEntry[a]
       /\ trace = <<>>

\* C5 witness: a second call with no candidates on a row whose reason was
\* left by a first call with no candidates at the same path.
C5_Witness ==
    /\ pc = "returned"
    /\ calls = 1
    /\ candidates = <<>>
    /\ rowAtEntry[str_reason] = <<"error_no_candidates", candidates_path>>
    /\ row[str_reason] = rowAtEntry[str_reason]
    /\ row[str_chosen_supplier_id] = NoneV

\* the field named by a min:/max: strategy
RankField == SubSeq(fallback, 5, Len(fallback))
IsMin == Len(fallback) > 4 /\ SubSeq(fallback, 1, 4) = <<"m", "i", "n", ":">>
IsMax == Len(fallback) > 4 /\ SubSeq(fallback, 1, 4) = <<"m", "a", "x", ":">>
HasValue(c) == RankField \in DOMAIN c /\ c[RankField] # NoneV
HasNumber(c) == HasValue(c) /\ Tag(c[RankField]) \in {"int", "float"}
Cost(i) == Tenths(candidates[i][RankField])
\* candidate i is the first one with the smallest (largest) value
EarliestMin(i) ==
    \A j \in 1..Len(candidates) :
        /\ Cost(i) <= Cost(j)
        /\ j < i => Cost(j) > Cost(i)
EarliestMax(i) ==
    \A j \in 1..Len(candidates) :
        /\ Cost(i) >= Cost(j)
        /\ j < i => Cost(j) < Cost(i)

\* C6: the fallback with min:<field> (max:<field>) over candidates that all
\* have a number in <field> chooses the candidate with the smallest (largest)
\* value, the earliest one among equals, and does not raise.
C6_MinMaxEarliest ==
    (Ended /\ LastEvent = "apply_fallback" /\ (IsMin \/ IsMax)
       /\ \A i \in 1..Len(candidates) : HasNumber(candidates[i]))
    => /\ pc = "returned"
       /\ \E i \in 1..Len(candidates) :
             /\ chosen = candidates[i]
             /\ IsMin => EarliestMin(i)
             /\ IsMax => EarliestMax(i)
             /\ row[str_chosen_supplier_id] = candidates[i][str_supplier_id]

\* C6 witness: two candidates tie on the minimum and the first is chosen.
C6_Witness ==
    /\ pc = "returned"
    /\ LastEvent = "apply_fallback"
    /\ IsMin
    /\ Len(candidates) = 2
    /\ HasNumber(candidates[1]) /\ HasNumber(candidates[2])
    /\ Cost(1) = Cost(2)
    /\ chosen = candidates[1]

\* C7: in the fallback with min:<field> / max:<field>, a candidate without a
\* value for <field> (key absent or null) ranks last: the fallback returns,
\* chooses a candidate with a value when there is one, and the first
\* candidate when none has a value.
C7_MissingRanksLast ==
    (Ended /\ LastEvent = "apply_fallback" /\ (IsMin \/ IsMax)
       /\ \E i \in 1..Len(candidates) : ~HasValue(candidates[i]))
    => /\ pc = "returned"
       /\ (\E i \in 1..Len(candidates) : HasValue(candidates[i])) => HasValue(chosen)
       /\ (\A i \in 1..Len(candidates) : ~HasValue(candidates[i]))
             => chosen = candidates[1]

UnknownStrategy ==
    /\ fallback # <<"f", "i", "r", "s", "t">>
    /\ ~(Len(fallback) >= 4 /\ SubSeq(fallback, 1, 4) = <<"m", "i", "n", ":">>)
    /\ ~(Len(fallback) >= 4 /\ SubSeq(fallback, 1, 4) = <<"m", "a", "x", ":">>)

\* C8: the fallback with a strategy that is neither 'first' nor prefixed by
\* 'min:' or 'max:' returns, chooses the first candidate, maps its fields
\* and records the unknown-strategy reason naming the strategy.
C8_UnknownStrategyFirst ==
    (Ended /\ LastEvent = "apply_fallback" /\ UnknownStrategy)
    => /\ pc = "returned"
       /\ chosen = candidates[1]
       /\ MappedFrom(candidates[1])
       /\ MappedCols(candidates[1], RC) \subseteq written
       /\ row[str_reason] = <<"fallback_unknown", fallback>>

\* C8 witness: strategy 'min' (no colon) over two candidates.
C8_Witness ==
    /\ pc = "returned"
    /\ LastEvent = "apply_fallback"
    /\ fallback = <<"m", "i", "n">>
    /\ Len(candidates) = 2
    /\ row[str_chosen_supplier_id] = IntV(1)
    /\ row[str_reason] = <<"fallback_unknown", fallback>>

ResponseIsObject == response[1] = "json" /\ response[2][1] = "object"
ResponseData == response[2][2]
HasIntIndex ==
    /\ ResponseIsObject
    /\ "chosen_index" \in DOMAIN ResponseData
    /\ Tag(ResponseData["chosen_index"]) = "int"
ResponseIndex == ResponseData["chosen_index"][2]
IndexOutOfRange == ResponseIndex < 0 \/ ResponseIndex >= Len(candidates)
\* the reason text of the response, the default text when it has none
ResponseReason ==
    IF "reason" \in DOMAIN ResponseData THEN ResponseData["reason"]
    ELSE <<"text", "No reason provided">>
AiDecided(i) ==
    /\ pc = "returned"
    /\ trace = <<"load_test_context", "call_openai">>
    /\ chosen = candidates[i]
    /\ MappedFrom(candidates[i])
    /\ MappedCols(candidates[i], RC) \subseteq written
    /\ row[str_request] = <<"request_ai", world_conditions, candidates,
                            OptimizeFor, Model>>

WellShaped ==
    /\ HasIntIndex
    /\ "reason" \in DOMAIN ResponseData
    /\ Tag(ResponseData["reason"]) = "text"

\* C10: a JSON response without both required keys (integer chosen_index,
\* string reason) is a failure of the external call: it goes to the fallback
\* and is never accepted as an AI decision.
C10_ShapeEnforced ==
    (AfterExternal /\ response[1] = "json" /\ ~WellShaped)
    => /\ pc = "fallback" \/ "apply_fallback" \in Events
       /\ pc = "returned" => Tag(row[str_request]) = "request_fallback"

\* C11: with the credential unset or empty the call never loads the world
\* conditions and never attempts the external call; with candidates it goes
\* straight to the fallback and ends with a fallback-decided row.
C11_NoCredentialFallbackDecided ==
    (pc # "idle" /\ ~Truthy(api_key))
    => /\ "load_test_context" \notin Events
       /\ "call_openai" \notin Events
       /\ response = NoResponse
       /\ (Ended /\ candidates # <<>>)
             => /\ pc = "returned"
                /\ trace = <<"apply_fallback">>
                /\ Tag(row[str_reason]) \in FallbackReasonTags
                /\ Tag(row[str_request]) = "request_fallback"

\* how often, and where first, an event occurs in this invocation
Occurrences(e) == Cardinality({i \in DOMAIN trace : trace[i] = e})
Position(e) == CHOOSE i \in DOMAIN trace : trace[i] = e

\* C12: within one invocation the branch is chosen once: at most one external
\* attempt, at most one fallback, with a credential no fallback before the
\* external attempt, and no external attempt after the fallback.
C12_BranchChosenOnce ==
    /\ Occurrences("call_openai") <= 1
    /\ Occurrences("apply_fallback") <= 1
    /\ Occurrences("load_test_context") <= 1
    /\ "apply_fallback" \in Events
       => /\ \A i \in DOMAIN trace : i > Position("apply_fallback")
                                     => trace[i] # "call_openai"
          /\ Truthy(api_key)
             => /\ "call_openai" \in Events
                /\ Position("call_openai") < Position("apply_fallback")
    /\ pc = "external" => "call_openai" \notin Events /\ "apply_fallback" \notin Events
    /\ pc = "fallback" => "apply_fallback" \notin Events
C12_Witness ==
    /\ pc = "returned"
    /\ Truthy(api_key)
    /\ trace = <<"load_test_context", "call_openai", "apply_fallback">>

\* the fields compute_ai_value may write
DesignatedFields == ChosenCols \cup {str_reason, str_request}

PathParts == Split(candidates_path, <<".">>)
FirstValue == rowAtEntry[PathParts[1]]
FirstAbsent ==
    PathParts[1] \notin DOMAIN rowAtEntry \/ FirstValue = NoneV
SecondAbsent ==
    /\ Len(PathParts) = 2
    /\ ~FirstAbsent
    /\ \/ Tag(FirstValue) # "obj"
       \/ PathParts[2] \notin DOMAIN FirstValue[2].attrs
       \/ FirstValue[2].attrs[PathParts[2]] = NoneV
FinalValue ==
    IF Len(PathParts) = 1 THEN FirstValue ELSE FirstValue[2].attrs[PathParts[2]]
CandidatesFound == GetCandidates(Obj(RowClass, rowAtEntry), candidates_path)

\* C18: a path with a missing or null segment gives the empty sequence and
\* the call returns without raising; a final collection is returned with the
\* same elements in the same order; a final single entity is returned as a
\* one-element sequence.
C18_GetCandidatesContract ==
    pc # "idle"
    => /\ Len(PathParts) \in 1..2
       /\ Len(candidates) = Len(CandidatesFound)
       /\ (FirstAbsent \/ SecondAbsent)
          => CandidatesFound = <<>> /\ pc = "returned" /\ trace = <<>>
       /\ (~FirstAbsent /\ ~SecondAbsent /\ Tag(FinalValue) = "list")
          => CandidatesFound = FinalValue[2]
       /\ (~FirstAbsent /\ ~SecondAbsent /\ Tag(FinalValue) = "obj")
          => CandidatesFound = <<FinalValue>>
C18_Witness ==
    /\ pc = "returned"
    /\ candidates_path = str_product
    /\ Len(candidates) = 1
    /\ CandidatesFound = <<rowAtEntry[str_product]>>

\* record rec carries the scalar columns of entity e: the same number (or
\* both null) under every column name
BuiltFrom(rec, e) ==
    \A k \in Range(ColumnAttrs(e[2].cls)) :
        /\ k \in DOMAIN rec
        /\ IF GetAttr(e, k) = NoneV THEN rec[k] = NoneV
           ELSE rec[k] # NoneV /\ Tenths(rec[k]) = Tenths(GetAttr(e, k))

\* C19: the serialized sequence has one record per candidate and the i-th
\* record is built from the i-th candidate, so an index denotes the same
\* candidate in both sequences.
C19_SerializedInOrder ==
    pc # "idle"
    => /\ Len(candidates) = Len(CandidatesFound)
       /\ \A i \in DOMAIN candidates : BuiltFrom(candidates[i], CandidatesFound[i])
C19_Witness ==
    /\ pc # "idle"
    /\ Len(candidates) = MaxCands
    /\ \A i, j \in DOMAIN candidates :
          i # j => ~BuiltFrom(candidates[i], CandidatesFound[j])

\* the result columns of the class with the mixed column names
MapRC == GetResultColumns(MapClass)
\* name without its first Len(prefix) characters
WithoutPrefix(name, prefix) == SubSeq(name, Len(prefix) + 1, Len(name))

\* C20: the result columns are exactly the scalar fields whose name begins
\* with 'chosen_', and each one's source field is the name with that leading
\* prefix removed and the rest kept, also when 'chosen_' occurs again in it.
C20_ResultColumns ==
    pc = "returned"
    => /\ DOMAIN MapRC
            = {c \in Range(ColumnAttrs(MapClass)) : StartsWith(c, str_chosen_)}
       /\ \A c \in DOMAIN MapRC : MapRC[c] = WithoutPrefix(c, str_chosen_)
       /\ \A c \in DOMAIN MapRC :
             WithoutPrefix(c, str_chosen_) \in DOMAIN chosen
             /\ chosen[WithoutPrefix(c, str_chosen_)] # NoneV
             => c \in written

\* a field name that marks a monetary field / an id field
IsMonetary(col) ==
    Contains(col, str_price) \/ Contains(col, str_cost) \/ Contains(col, str_amount)
IsIdField(col) == Contains(col, str_id)
\* the source value _map_result_fields found for a result column
Source(col) == Resolve(chosen, MapRC[col])

\* C14: a populated field whose name contains '_price', '_cost' or '_amount'
\* holds an exact decimal equal to the numeric source value, whatever else
\* the name contains.
C14_MonetaryIsDecimal ==
    pc = "returned"
    => \A col \in written :
          IsMonetary(col) /\ IsNumber(Source(col))
          => Tag(row[col]) = "dec" /\ Tenths(row[col]) = Tenths(Source(col))

\* C15: a populated field whose name contains '_id' holds an integer, for a
\* numeric source value (a float such as 7.0 included) and for a non-numeric
\* one.
C15_IdIsInteger ==
    pc = "returned"
    => \A col \in written : IsIdField(col) => Tag(row[col]) = "int"

RequestSuppliers == GetAttr(row[str_product], str_ProductSupplierList)[2]
UnitCost(i) == GetAttr(RequestSuppliers[i], str_unit_cost)
KnownCost == {i \in DOMAIN RequestSuppliers : UnitCost(i) # NoneV}
\* the handler has run without an answer of the service: no key, or the call
\* raised
HandlerFellBack ==
    /\ "handler" \in Events
    /\ pc # "idle"
    /\ ~Truthy(api_key) \/ response = <<"throws">>

\* C17: without an API key, or when the API call raises, the handler sets
\* chosen_supplier_id and chosen_unit_price from the supplier with the lowest
\* unit cost; a supplier with a null unit cost is not chosen while another
\* supplier has a known cost.
C17_FallbackLowestCost ==
    (HandlerFellBack /\ RequestSuppliers # <<>>)
    => \E i \in DOMAIN RequestSuppliers :
          /\ row[str_chosen_supplier_id] = GetAttr(RequestSuppliers[i], str_supplier_id)
          /\ KnownCost # {}
             => /\ i \in KnownCost
                /\ \A j \in KnownCost : Tenths(UnitCost(i)) <= Tenths(UnitCost(j))
                /\ IsNumber(row[str_chosen_unit_price])
                /\ Tenths(row[str_chosen_unit_price]) = Tenths(UnitCost(i))

\* the chosen record has a value (not null) under the name
HasValueUnder(name) == name \in DOMAIN chosen /\ chosen[name] # NoneV
\* the name with a final _price turned into _cost, or a final _cost into _price
SwapSuffix(name) ==
    IF EndsWith(name, str_price)
    THEN SubSeq(name, 1, Len(name) - Len(str_price)) \o str_cost
    ELSE IF EndsWith(name, str_cost)
    THEN SubSeq(name, 1, Len(name) - Len(str_cost)) \o str_price
    ELSE name

\* C21: every result column receives the chosen record's value under the
\* exact source name when there is one, otherwise the value under the name
\* with the _price/_cost suffix swapped; when there is neither the column
\* keeps its previous value, and every column is treated this way.
C21_ResolveExactThenSwapped ==
    pc = "returned"
    => \A col \in DOMAIN MapRC :
          IF HasValueUnder(MapRC[col])
          THEN col \in written /\ row[col] = Coerce(col, chosen[MapRC[col]])
          ELSE IF HasValueUnder(SwapSuffix(MapRC[col]))
          THEN col \in written
               /\ row[col] = Coerce(col, chosen[SwapSuffix(MapRC[col])])
          ELSE col \notin written /\ row[col] = rowAtEntry[col]

\* the insert handler has run on the request row
HandlerRan == "handler" \in Events

\* C22: in each insert handler, whenever a chosen supplier and a reason are
\* recorded on the request row, request is set on that row as well.
C22_AuditTrailComplete ==
    (HandlerRan /\ {str_chosen_supplier_id, str_reason} \subseteq written)
    => str_request \in written /\ row[str_request] # NoneV

\* the handler was last run for an update or a delete of the request
AfterRowEvent == trace # <<>> /\ LastEvent \in RowVerbs

\* C23: whenever an insert handler sets chosen_supplier_id, it is the
\* supplier_id of one of the product's suppliers and chosen_unit_price is the
\* unit cost recorded for that supplier (also when the service names a
\* supplier that is not a candidate); a handler run for an update or a delete
\* changes no field of the row.
C23_ChosenPairFromOneSupplier ==
    /\ (HandlerRan /\ str_chosen_supplier_id \in written)
       => \E i \in DOMAIN RequestSuppliers :
             /\ PyEq(row[str_chosen_supplier_id],
                     GetAttr(RequestSuppliers[i], str_supplier_id))
             /\ PyEq(row[str_chosen_unit_price], UnitCost(i))
    /\ AfterRowEvent => row = rowAtEntry /\ written = {} /\ pc = "idle"

====
